---- MODULE Spec2Model ----
(***************************************************************************)
(* Model of the thread-safe LRU cache of "LRU Cache/LRUCache.h".           *)
(*                                                                         *)
(* The std::list is a heap of nodes addressed by stable node ids (the list *)
(* iterators of the source) plus the order in which the nodes are linked;  *)
(* the std::unordered_map maps a key to a node id.  Every statement of a   *)
(* method that touches the shared structures is one step of the calling    *)
(* thread, so that a state in the middle of a method exists in the model   *)
(* and the std::shared_mutex is what keeps other threads from seeing it.   *)
(***************************************************************************)
EXTENDS Integers, Sequences, FiniteSets, TLC

\* ------------------------------------------------------------------ bounds
NumKeys == 3
MaxCapacity == 2
\* the calls a caller with a finite loop makes (10 in writer and in reader)
MaxCalls == 2

\* two callers: the mutex lets at most one of them into get, put or remove
Threads == {1, 2}
Keys == 1..NumKeys
\* the cache copies values and never inspects them: two tell them apart
Values == {1, 2}
\* capacity_ + 1 entries are linked between emplace_front and pop_back
NodeIds == 1..(MaxCapacity + 1)

NoThread == 0
Free == [key |-> 0, value |-> 0]
Unset == 0
\* what a method returns, by its return type: void, bool or size_t
Void == [type |-> "void", bool |-> FALSE, size |-> 0]
Bool(b) == [type |-> "bool", bool |-> b, size |-> 0]
SizeT(n) == [type |-> "size_t", bool |-> FALSE, size |-> n]
NoCall == [op |-> "none", key |-> 0, value |-> 0]
NoNode == 0
\* a caller that never stops calling
Endless == -1

VARIABLES
    capacity_,      \* size_t capacity_
    calls,          \* per thread: the calls its loop has left to make, or Endless
    cache_items_,   \* std::list: the node ids, front (most recent) first
    nodes,          \* the list's nodes: node id -> (key, value), or Free
    cacheMap,       \* std::unordered_map: key -> node id (list iterator)
    mutex_,         \* std::shared_mutex: its exclusive owner and its shared owners
    pc,             \* per thread: the statement it is at
    call,           \* per thread: the method it is in, with its arguments
    it,             \* per thread: the local "it" (a node id, or NoNode for end())
    lru,            \* per thread: the local "lru" of put
    out,            \* per thread: the caller's Value& of get
    ret,            \* per thread: the value the method returns
    before,         \* per thread: the cache and the caller's variable when it took the lock
    seqCache,       \* the entries of a cache that runs the operations one at a time
    expect,         \* per thread: what that cache returned for the thread's operation
    lastUse,        \* the keys put and not since removed or evicted, by their most
                    \* recent successful access (put, or get that hit), most recent first
    lastPut,        \* such a key -> the value of the last put of it that took effect
    fill            \* the keys put so far, in order, while the cache is only being
                    \* filled: distinct keys put into the new cache, at most
                    \* capacity_ + 1 of them, no get or remove in between

shared == <<cache_items_, nodes, cacheMap>>
locals == <<call, it, lru, out, ret>>
ghost == <<before, seqCache, expect, lastUse, lastPut, fill>>
vars == <<capacity_, calls, cache_items_, nodes, cacheMap, mutex_, pc, call, it, lru, out, ret,
          before, seqCache, expect, lastUse, lastPut, fill>>

\* --------------------------------------------------------- the containers
EmptyMap == [k \in {} |-> NoNode]

\* a lookup that answers begin() where it should answer end()
FindNeverEnd(map, k) ==
    IF k \in DOMAIN map THEN map[k]
    ELSE IF DOMAIN map = {} THEN NoNode
    ELSE map[CHOOSE x \in DOMAIN map : \A y \in DOMAIN map : x <= y]

\* cacheMap.find(key): the iterator's node, NoNode for cacheMap.end()
Find(map, k) == IF k \in DOMAIN map THEN map[k] ELSE NoNode

\* cacheMap[key] = n
MapSet(map, k, n) == [x \in (DOMAIN map) \cup {k} |-> IF x = k THEN n ELSE map[x]]

\* the erase left out
MapEraseNothing(map, k) == map

\* cacheMap.erase(key)
MapErase(map, k) == [x \in (DOMAIN map) \ {k} |-> map[x]]

\* cacheMap.size()
MapSize(map) == Cardinality(DOMAIN map)

\* the splice left out: the node stays where it is
SpliceNoMove(list, n) == list

\* the node relinked at end() instead of begin()
SpliceToBack(list, n) == SelectSeq(list, LAMBDA x : x # n) \o <<n>>

\* the node exchanged with the one at the front
SpliceSwap(list, n) ==
    [i \in 1..Len(list) |-> IF i = 1 THEN n ELSE IF list[i] = n THEN list[1] ELSE list[i]]

\* cache_items_.splice(cache_items_.begin(), cache_items_, n): relink n at the front
Splice(list, n) == <<n>> \o SelectSeq(list, LAMBDA x : x # n)

\* the erase applied to the last node, whatever n is
ListEraseBack(list, n) == SubSeq(list, 1, Len(list) - 1)

\* cache_items_.erase(n): unlink n
ListErase(list, n) == SelectSeq(list, LAMBDA x : x # n)

\* begin() taken for the last node
FirstNode(list) == list[1]

\* auto lru = cache_items_.end(); --lru;
LastNode(list) == list[Len(list)]

\* a pop_back that unlinks nothing
PopBackNothing(list) == list

\* cache_items_.pop_back()
PopBack(list) == SubSeq(list, 1, Len(list) - 1)

\* the node emplace_front allocates: ids are addresses, any free one will do
FreeNodes == {n \in NodeIds : nodes[n] = Free}
\* an allocator that hands out the node at the back of the list while it is linked
NewNodeInUse ==
    IF cache_items_ = <<>> THEN CHOOSE n \in FreeNodes : \A m \in FreeNodes : n <= m
    ELSE cache_items_[Len(cache_items_)]

NewNode == CHOOSE n \in FreeNodes : \A m \in FreeNodes : n <= m

\* the test off by one: capacity_ + 1 entries are let through
OverCapacityOffByOne(map) == MapSize(map) > capacity_ + 1

\* the test with >= for >: a cache that just became full evicts
OverCapacityGe(map) == MapSize(map) >= capacity_

\* cacheMap.size() > capacity_
OverCapacity(map) == MapSize(map) > capacity_

\* it->second->first read for it->second->second
NodeKeyForValue(n) == nodes[n].key

\* it->second->second, read
NodeValue(n) == nodes[n].value

\* the assignment left out
NodeWriteSkip(ns, n, v) == ns

\* it->second->second = v
NodeWrite(ns, n, v) == [ns EXCEPT ![n].value = v]

\* the pair constructed from the key alone, its value default-constructed
NewEntryNoValue(k, v) == [key |-> k, value |-> Unset]

\* the pair emplace_front(key, value) constructs
NewEntry(k, v) == [key |-> k, value |-> v]

\* the entries (key, value) in list order
Items == [i \in 1..Len(cache_items_) |-> nodes[cache_items_[i]]]

\* the cache, and the caller's variable o, as a method finds them
Snapshot(o) == [items |-> Items, list |-> cache_items_, map |-> cacheMap, out |-> o]
NoSnapshot == [items |-> <<>>, list |-> <<>>, map |-> EmptyMap, out |-> Unset]

\* ------------------------------------------------------ the shared mutex
\* a unique_lock that does not wait for the shared owners
CanLockExclusiveOverReaders == mutex_.writer = NoThread

\* std::unique_lock lock(mutex_) can be taken
CanLockExclusive == mutex_.writer = NoThread /\ mutex_.readers = {}

\* size() without its lock
CanLockSharedAlways == TRUE

\* std::shared_lock lock(mutex_) can be taken
CanLockShared == mutex_.writer = NoThread

\* a return path that leaves the mutex locked
UnlockedLeak(t) == mutex_

\* the lock's destructor at a return: unlock, or unlock_shared
Unlocked(t) ==
    [writer |-> IF mutex_.writer = t THEN NoThread ELSE mutex_.writer,
     readers |-> mutex_.readers \ {t}]

\* ------------------------------------- the cache run one operation at a time
Without(s, x) == SelectSeq(s, LAMBDA y : y # x)
MoveFront(s, x) == <<x>> \o SelectSeq(s, LAMBDA y : y # x)
SeqKeys(c) == {c[i].key : i \in 1..Len(c)}
SeqIndex(c, k) == CHOOSE i \in 1..Len(c) : c[i].key = k
SeqValue(c, k) == c[SeqIndex(c, k)].value

SeqGet(c, k) == IF k \in SeqKeys(c) THEN MoveFront(c, c[SeqIndex(c, k)]) ELSE c

SeqPut(c, k, v) ==
    LET e == [key |-> k, value |-> v]
        rest == SelectSeq(c, LAMBDA y : y.key # k)
        all == <<e>> \o rest
    IN IF k \in SeqKeys(c) \/ Len(all) <= capacity_ THEN all
       ELSE SubSeq(all, 1, Len(all) - 1)

SeqRemove(c, k) == SelectSeq(c, LAMBDA y : y.key # k)

SeqApply(c, op) ==
    CASE op.op = "get" -> SeqGet(c, op.key)
      [] op.op = "put" -> SeqPut(c, op.key, op.value)
      [] op.op = "remove" -> SeqRemove(c, op.key)
      [] OTHER -> c

\* what the operation returns, and what it leaves in the caller's variable o
SeqResult(c, op, o) ==
    CASE op.op = "get" ->
            IF op.key \in SeqKeys(c)
            THEN [ret |-> Bool(TRUE), out |-> SeqValue(c, op.key)]
            ELSE [ret |-> Bool(FALSE), out |-> o]
      [] op.op = "size" -> [ret |-> SizeT(Len(c)), out |-> o]
      [] OTHER -> [ret |-> Void, out |-> o]

NoExpect == [ret |-> Void, out |-> Unset]

\* the history is no longer that of a cache being filled
NoFill == <<0>>
Filled(f) == f # NoFill /\ Len(f) = capacity_ + 1
\* a get takes effect: it intervenes unless the capacity_ + 1 puts are done
FillGet(f) == IF Filled(f) THEN f ELSE NoFill
\* a put of k takes effect
FillPut(f, k) ==
    IF f # NoFill /\ Len(f) <= capacity_ /\ \A i \in 1..Len(f) : f[i] # k
    THEN Append(f, k) ELSE NoFill

\* ---------------------------------------------------------- construction
Start(caps, loops) ==
    /\ capacity_ \in caps
    /\ calls \in [Threads -> loops]
    /\ cache_items_ = <<>>
    /\ nodes = [n \in NodeIds |-> Free]
    /\ cacheMap = EmptyMap
    /\ mutex_ = [writer |-> NoThread, readers |-> {}]
    /\ pc = [t \in Threads |-> "idle"]
    /\ call = [t \in Threads |-> NoCall]
    /\ it = [t \in Threads |-> NoNode]
    /\ lru = [t \in Threads |-> NoNode]
    /\ out = [t \in Threads |-> Unset]
    /\ ret = [t \in Threads |-> Void]
    /\ before = [t \in Threads |-> NoSnapshot]
    /\ seqCache = <<>>
    /\ expect = [t \in Threads |-> NoExpect]
    /\ lastUse = <<>>
    /\ lastPut = [k \in Keys |-> Unset]
    /\ fill = <<>>

\* the cache constructed with one of the capacities caps, called without end
InitWith(caps) == Start(caps, {Endless})

Init == InitWith(1..MaxCapacity)

\* ------------------------------------------------------------ the callers
\* the operations a caller can pass to the method op: nothing reads an argument
\* before the method's lock is taken, so the arguments are drawn there
Calls(op) ==
    CASE op = "get" -> [op : {"get"}, key : Keys, value : {0}]
      [] op = "put" -> [op : {"put"}, key : Keys, value : Values]
      [] op = "remove" -> [op : {"remove"}, key : Keys, value : {0}]
      [] OTHER -> [op : {"size"}, key : {0}, value : {0}]

\* what the caller's Value variable can hold when it calls get
Outs(op) == IF op = "get" THEN Values \cup {Unset} ELSE {Unset}

\* a thread calls get(key, value), put(key, value), remove(key) or size()
Invoke(t) ==
    /\ pc[t] = "idle"
    /\ calls[t] # 0
    /\ calls' = IF calls[t] = Endless THEN calls ELSE [calls EXCEPT ![t] = @ - 1]
    /\ \E o \in {"get", "put", "remove", "size"} :
          call' = [call EXCEPT ![t] = [op |-> o, key |-> 0, value |-> 0]]
    /\ pc' = [pc EXCEPT ![t] = "lock"]
    /\ UNCHANGED <<capacity_, shared, mutex_, it, lru, out, ret, ghost>>

\* the effect of an operation on the history: the one-at-a-time cache runs it
TakeEffect(t) ==
    /\ seqCache' = SeqApply(seqCache, call[t])
    /\ expect' = [expect EXCEPT ![t] = SeqResult(seqCache, call[t], out[t])]

\* std::unique_lock lock(mutex_) of get, put and remove
LockExclusive(t) ==
    /\ pc[t] = "lock"
    /\ call[t].op \in {"get", "put", "remove"}
    /\ CanLockExclusive
    /\ mutex_' = [mutex_ EXCEPT !.writer = t]
    /\ pc' = [pc EXCEPT ![t] = CASE call[t].op = "get" -> "get_find"
                                 [] call[t].op = "put" -> "put_find"
                                 [] OTHER -> "rm_find"]
    /\ \E c \in Calls(call[t].op), o \in Outs(call[t].op) :
          /\ call' = [call EXCEPT ![t] = c]
          /\ out' = [out EXCEPT ![t] = o]
          /\ before' = [before EXCEPT ![t] = Snapshot(o)]
    /\ UNCHANGED <<capacity_, calls, shared, it, lru, ret, seqCache, expect, lastUse, lastPut, fill>>

\* std::shared_lock lock(mutex_) of size
LockShared(t) ==
    /\ pc[t] = "lock"
    /\ call[t].op = "size"
    /\ CanLockShared
    /\ mutex_' = [mutex_ EXCEPT !.readers = @ \cup {t}]
    /\ pc' = [pc EXCEPT ![t] = "size_read"]
    /\ before' = [before EXCEPT ![t] = Snapshot(out[t])]
    /\ UNCHANGED <<capacity_, calls, shared, locals, seqCache, expect, lastUse, lastPut, fill>>

\* the return: the lock's destructor releases the mutex, the locals go away
Unlock(t) ==
    /\ pc[t] = "unlock"
    /\ mutex_' = Unlocked(t)
    /\ pc' = [pc EXCEPT ![t] = "idle"]
    /\ call' = [call EXCEPT ![t] = NoCall]
    /\ it' = [it EXCEPT ![t] = NoNode]
    /\ lru' = [lru EXCEPT ![t] = NoNode]
    /\ out' = [out EXCEPT ![t] = Unset]
    /\ ret' = [ret EXCEPT ![t] = Void]
    /\ before' = [before EXCEPT ![t] = NoSnapshot]
    /\ expect' = [expect EXCEPT ![t] = NoExpect]
    /\ UNCHANGED <<capacity_, calls, shared, seqCache, lastUse, lastPut, fill>>

\* -------------------------------------------------------------------- get
\* auto it = cacheMap.find(key); if (it == cacheMap.end()) return false;
GetFind(t) ==
    /\ pc[t] = "get_find"
    /\ LET n == Find(cacheMap, call[t].key) IN
          /\ it' = [it EXCEPT ![t] = n]
          /\ IF n = NoNode
             THEN /\ pc' = [pc EXCEPT ![t] = "unlock"]
                  /\ ret' = [ret EXCEPT ![t] = Bool(FALSE)]
                  /\ UNCHANGED lastUse
             ELSE /\ pc' = [pc EXCEPT ![t] = "get_splice"]
                  /\ lastUse' = MoveFront(lastUse, call[t].key)
                  /\ UNCHANGED ret
    /\ fill' = FillGet(fill)
    /\ TakeEffect(t)
    /\ UNCHANGED <<capacity_, calls, shared, mutex_, call, lru, out, before, lastPut>>

\* cache_items_.splice(cache_items_.begin(), cache_items_, it->second);
GetSplice(t) ==
    /\ pc[t] = "get_splice"
    /\ cache_items_' = Splice(cache_items_, it[t])
    /\ pc' = [pc EXCEPT ![t] = "get_read"]
    /\ UNCHANGED <<capacity_, calls, nodes, cacheMap, mutex_, locals, ghost>>

\* value = it->second->second; return true;
GetRead(t) ==
    /\ pc[t] = "get_read"
    /\ out' = [out EXCEPT ![t] = NodeValue(it[t])]
    /\ pc' = [pc EXCEPT ![t] = "unlock"]
    /\ ret' = [ret EXCEPT ![t] = Bool(TRUE)]
    /\ UNCHANGED <<capacity_, calls, shared, mutex_, call, it, lru, ghost>>

\* -------------------------------------------------------------------- put
\* auto it = cacheMap.find(key); if (it != cacheMap.end()) ...
PutFind(t) ==
    /\ pc[t] = "put_find"
    /\ LET n == Find(cacheMap, call[t].key) IN
          /\ it' = [it EXCEPT ![t] = n]
          /\ pc' = [pc EXCEPT ![t] = IF n # NoNode THEN "put_update" ELSE "put_emplace"]
    /\ lastUse' = MoveFront(lastUse, call[t].key)
    /\ lastPut' = [lastPut EXCEPT ![call[t].key] = call[t].value]
    /\ fill' = FillPut(fill, call[t].key)
    /\ TakeEffect(t)
    /\ UNCHANGED <<capacity_, calls, shared, mutex_, call, lru, out, ret, before>>

\* it->second->second = value;
PutUpdate(t) ==
    /\ pc[t] = "put_update"
    /\ nodes' = NodeWrite(nodes, it[t], call[t].value)
    /\ pc' = [pc EXCEPT ![t] = "put_splice"]
    /\ UNCHANGED <<capacity_, calls, cache_items_, cacheMap, mutex_, locals, ghost>>

\* cache_items_.splice(cache_items_.begin(), cache_items_, it->second); return;
PutSplice(t) ==
    /\ pc[t] = "put_splice"
    /\ cache_items_' = Splice(cache_items_, it[t])
    /\ pc' = [pc EXCEPT ![t] = "unlock"]
    /\ UNCHANGED <<capacity_, calls, nodes, cacheMap, mutex_, locals, ghost>>

\* cache_items_.emplace_front(key, value);
PutEmplace(t) ==
    /\ pc[t] = "put_emplace"
    /\ FreeNodes # {}
    /\ nodes' = [nodes EXCEPT ![NewNode] = NewEntry(call[t].key, call[t].value)]
    /\ cache_items_' = <<NewNode>> \o cache_items_
    /\ pc' = [pc EXCEPT ![t] = "put_index"]
    /\ UNCHANGED <<capacity_, calls, cacheMap, mutex_, locals, ghost>>

\* cacheMap[key] = cache_items_.begin();
PutIndex(t) ==
    /\ pc[t] = "put_index"
    /\ cacheMap' = MapSet(cacheMap, call[t].key, Head(cache_items_))
    /\ pc' = [pc EXCEPT ![t] = "put_check"]
    /\ UNCHANGED <<capacity_, calls, cache_items_, nodes, mutex_, locals, ghost>>

\* if (cacheMap.size() > capacity_)
PutCheck(t) ==
    /\ pc[t] = "put_check"
    /\ pc' = [pc EXCEPT ![t] = IF OverCapacity(cacheMap) THEN "put_lru" ELSE "unlock"]
    /\ UNCHANGED <<capacity_, calls, shared, mutex_, locals, ghost>>

\* auto lru = cache_items_.end(); --lru;
PutLru(t) ==
    /\ pc[t] = "put_lru"
    /\ cache_items_ # <<>>
    /\ lru' = [lru EXCEPT ![t] = LastNode(cache_items_)]
    /\ pc' = [pc EXCEPT ![t] = "put_erase"]
    /\ UNCHANGED <<capacity_, calls, shared, mutex_, call, it, out, ret, ghost>>

\* cacheMap.erase(lru->first);
PutErase(t) ==
    /\ pc[t] = "put_erase"
    /\ cacheMap' = MapErase(cacheMap, nodes[lru[t]].key)
    /\ pc' = [pc EXCEPT ![t] = "put_pop"]
    /\ UNCHANGED <<capacity_, calls, cache_items_, nodes, mutex_, locals, ghost>>

\* cache_items_.pop_back();
PutPop(t) ==
    /\ pc[t] = "put_pop"
    /\ cache_items_ # <<>>
    /\ nodes' = [nodes EXCEPT ![LastNode(cache_items_)] = Free]
    /\ cache_items_' = PopBack(cache_items_)
    /\ pc' = [pc EXCEPT ![t] = "unlock"]
    /\ LET gone == nodes[LastNode(cache_items_)].key IN
          /\ lastUse' = Without(lastUse, gone)
          /\ lastPut' = [lastPut EXCEPT ![gone] = Unset]
    /\ UNCHANGED <<capacity_, calls, cacheMap, mutex_, locals, before, seqCache, expect, fill>>

\* ----------------------------------------------------------------- remove
\* auto it = cacheMap.find(key); if (it != cacheMap.end()) ...
RemoveFind(t) ==
    /\ pc[t] = "rm_find"
    /\ LET n == Find(cacheMap, call[t].key) IN
          /\ it' = [it EXCEPT ![t] = n]
          /\ pc' = [pc EXCEPT ![t] = IF n # NoNode THEN "rm_list" ELSE "unlock"]
    /\ lastUse' = Without(lastUse, call[t].key)
    /\ lastPut' = [lastPut EXCEPT ![call[t].key] = Unset]
    /\ fill' = NoFill
    /\ TakeEffect(t)
    /\ UNCHANGED <<capacity_, calls, shared, mutex_, call, lru, out, ret, before>>

\* cache_items_.erase(it->second);
RemoveList(t) ==
    /\ pc[t] = "rm_list"
    /\ cache_items_' = ListErase(cache_items_, it[t])
    /\ nodes' = [nodes EXCEPT ![it[t]] = Free]
    /\ pc' = [pc EXCEPT ![t] = "rm_index"]
    /\ UNCHANGED <<capacity_, calls, cacheMap, mutex_, locals, ghost>>

\* cacheMap.erase(it);
RemoveIndex(t) ==
    /\ pc[t] = "rm_index"
    /\ cacheMap' = MapErase(cacheMap, call[t].key)
    /\ pc' = [pc EXCEPT ![t] = "unlock"]
    /\ UNCHANGED <<capacity_, calls, cache_items_, nodes, mutex_, locals, ghost>>

\* ------------------------------------------------------------------- size
\* return cacheMap.size();
SizeRead(t) ==
    /\ pc[t] = "size_read"
    /\ pc' = [pc EXCEPT ![t] = "unlock"]
    /\ ret' = [ret EXCEPT ![t] = SizeT(MapSize(cacheMap))]
    /\ TakeEffect(t)
    /\ UNCHANGED <<capacity_, calls, shared, mutex_, call, it, lru, out, before, lastUse, lastPut, fill>>

\* ---------------------------------------------------------- specification
\* a step of thread t: the next call of its loop, or the next step of the call it
\* is in
Run(t) ==
    \/ Invoke(t)
    \/ LockExclusive(t) \/ LockShared(t) \/ Unlock(t)
    \/ GetFind(t) \/ GetSplice(t) \/ GetRead(t)
    \/ PutFind(t) \/ PutUpdate(t) \/ PutSplice(t) \/ PutEmplace(t) \/ PutIndex(t)
    \/ PutCheck(t) \/ PutLru(t) \/ PutErase(t) \/ PutPop(t)
    \/ RemoveFind(t) \/ RemoveList(t) \/ RemoveIndex(t)
    \/ SizeRead(t)

Next ==
    \E t \in Threads :
        \/ Invoke(t)
        \/ LockExclusive(t)
        \/ LockShared(t)
        \/ Unlock(t)
        \/ GetFind(t)
        \/ GetSplice(t)
        \/ GetRead(t)
        \/ PutFind(t)
        \/ PutUpdate(t)
        \/ PutSplice(t)
        \/ PutEmplace(t)
        \/ PutIndex(t)
        \/ PutCheck(t)
        \/ PutLru(t)
        \/ PutErase(t)
        \/ PutPop(t)
        \/ RemoveFind(t)
        \/ RemoveList(t)
        \/ RemoveIndex(t)
        \/ SizeRead(t)

Spec == Init /\ [][Next]_vars

\* a cache that holds three entries, beside one that evicts at every new key
InitRoomy == InitWith({1, 3})
SpecRoomy == InitRoomy /\ [][Next]_vars

\* the constructor takes any size_t: capacity 0 as well as a positive one
InitUnguarded == InitWith({0, 1})
SpecUnguarded == InitUnguarded /\ [][Next]_vars

\* callers that loop MaxCalls times, as writer and reader do, or without end, under
\* a scheduler that lets every thread that can take a step take one; the mutex
\* promises no more: a thread that finds it locked waits for the next release.
\* The locking never looks at the capacity; at capacity 1 every path of the
\* methods is taken.
InitLive == Start({1}, {Endless, MaxCalls})
\* (every step of Run(t) moves pc[t])
SpecLive == InitLive /\ [][Next]_vars /\ \A t \in Threads : WF_pc(Run(t))

\* ================================================================ claims
InBody(t) == pc[t] \notin {"idle", "lock"}
InExclusiveBody(t) == InBody(t) /\ call[t].op \in {"get", "put", "remove"}
InSizeBody(t) == InBody(t) /\ call[t].op = "size"
Returning(t, op) == pc[t] = "unlock" /\ call[t].op = op
KeysOf(c) == {c[i].key : i \in 1..Len(c)}
ValueIn(c, k) == c[CHOOSE i \in 1..Len(c) : c[i].key = k].value
Occurrences(c, k) == Cardinality({i \in 1..Len(c) : c[i].key = k})
\* put of a key that was absent / present when put took the lock
PutAbsent(t) == call[t].op = "put" /\ call[t].key \notin KeysOf(before[t].items)
PutPresent(t) == call[t].op = "put" /\ call[t].key \in KeysOf(before[t].items)

\* C1: with capacity N >= 1, whenever no get, put or remove is inside its
\* critical section, and whenever a put is returning, the index holds at most N
\* keys; and every value size() returns is in 0..N.
C1_CapacityBound ==
    /\ capacity_ >= 1
    /\ (\A t \in Threads : ~InExclusiveBody(t)) => MapSize(cacheMap) <= capacity_
    /\ \A t \in Threads : Returning(t, "put") => MapSize(cacheMap) <= capacity_
    /\ \A t \in Threads : Returning(t, "size") => ret[t].size \in 0..capacity_

\* a put of an absent key into a full cache of capacity >= 2 is returning
C1_Witness ==
    \E t \in Threads :
        /\ Returning(t, "put") /\ PutAbsent(t)
        /\ capacity_ >= 2 /\ Len(before[t].items) = capacity_
        /\ MapSize(cacheMap) = capacity_

\* the key, among the set ks, whose most recent successful access is the oldest
OldestUsed(ks) ==
    LET s == SelectSeq(lastUse, LAMBDA k : k \in ks) IN
    IF s = <<>> THEN 0 ELSE s[Len(s)]

\* C2: when put of an absent key evicts, the entry it picks, and the key it
\* erases from the index, is the key whose most recent successful access (put, or
\* get that hit) is the oldest among the keys present just before the put; the
\* other keys and the new key stay.
C2_EvictsLeastRecentlyUsed ==
    \A t \in Threads :
        /\ pc[t] \in {"put_erase", "put_pop"} =>
              nodes[lru[t]].key = OldestUsed(KeysOf(before[t].items))
        /\ pc[t] = "put_pop" =>
              DOMAIN cacheMap =
                  (KeysOf(before[t].items) \cup {call[t].key})
                      \ {OldestUsed(KeysOf(before[t].items))}

\* capacity 2; A (key 1) was put first and B (key 2) second (nodes 1 and 2), and A
\* was accessed again since (A is in front of B): put C (key 3) has picked B, and A
\* and C stay
C2_Witness ==
    \E t \in Threads :
        /\ pc[t] = "put_pop" /\ capacity_ = 2
        /\ call[t].key = 3
        /\ before[t].list = <<1, 2>>
        /\ before[t].items[1].key = 1 /\ before[t].items[2].key = 2
        /\ nodes[lru[t]].key = 2
        /\ DOMAIN cacheMap = {1, 3}

\* C3: whenever no thread holds the lock exclusively, a key is in the index iff
\* exactly one entry of the list has that key, no key has two entries, and the
\* index and the list have the same number of elements.
C3_IndexMatchesList ==
    mutex_.writer = NoThread =>
        /\ \A k \in Keys : (k \in DOMAIN cacheMap) <=> (Occurrences(Items, k) = 1)
        /\ \A k \in Keys : Occurrences(Items, k) <= 1
        /\ MapSize(cacheMap) = Len(cache_items_)
        /\ \A i \in 1..Len(cache_items_) : Items[i] # Free

\* nobody is in a method, two entries are cached and an entry has been evicted or
\* removed before (the third node is in use)
C3_Witness ==
    /\ \A t \in Threads : pc[t] = "idle"
    /\ Len(cache_items_) = 2
    /\ \E i \in 1..2 : cache_items_[i] = 3

\* C4: every value a method returns (the found flag and the value of get, the
\* count of size) is the value a cache of the same capacity returns that runs the
\* operations one at a time, each at one step between its call and its return.
C4_Linearizable ==
    \A t \in Threads :
        pc[t] = "unlock" => ret[t] = expect[t].ret /\ out[t] = expect[t].out

\* a get that hit is returning while the other thread is in a call of its own,
\* waiting for the lock
C4_Witness ==
    \E t, u \in Threads :
        /\ t # u
        /\ Returning(t, "get") /\ ret[t] = Bool(TRUE) /\ out[t] # before[t].out
        /\ pc[u] = "lock"

\* C5: at most one thread is inside the body of get, put or remove, and none is
\* inside size meanwhile; so whoever is inside size, and whoever takes the lock,
\* finds the list and the index updated together.
C5_MutualExclusion ==
    /\ \A t, u \in Threads :
          t # u /\ InExclusiveBody(t) => ~InExclusiveBody(u) /\ ~InSizeBody(u)
    /\ \A t \in Threads : InSizeBody(t) => MapSize(cacheMap) = Len(cache_items_)
    /\ \A t \in Threads :
          InBody(t) => KeysOf(before[t].items) = DOMAIN before[t].map

\* a put has linked its new entry and not yet indexed it, and the other thread,
\* which called size, is kept waiting
C5_Witness ==
    \E t, u \in Threads :
        /\ pc[t] = "put_index" /\ Len(cache_items_) # MapSize(cacheMap)
        /\ pc[u] = "lock" /\ call[u].op = "size"

\* C6: once every operation has completed, size() <= capacity, the keys get finds
\* are as many as size() counts, and get returns for each the value of the last
\* put of that key that took effect.
C6_QuiescentState ==
    (\A t \in Threads : pc[t] = "idle") =>
        /\ MapSize(cacheMap) <= capacity_
        /\ Cardinality({k \in Keys : Find(cacheMap, k) # NoNode}) = Len(cache_items_)
        /\ \A k \in Keys :
              Find(cacheMap, k) # NoNode =>
                  /\ nodes[Find(cacheMap, k)].key = k
                  /\ NodeValue(Find(cacheMap, k)) = lastPut[k]

\* all operations have completed, an entry was evicted or removed on the way (the
\* third node is in use), the cache is full and the older entry, accessed again
\* since, holds the value 2 its last put wrote
C6_Witness ==
    /\ \A t \in Threads : pc[t] = "idle"
    /\ capacity_ = 2 /\ MapSize(cacheMap) = 2
    /\ cache_items_ = <<1, 3>>
    /\ lastPut[nodes[1].key] = 2

\* the entries of before[t] without the one of key k
Others(t, k) == SelectSeq(before[t].items, LAMBDA e : e.key # k)

\* C7: put(k, v) of an absent k links a new entry (k, v) at the front and indexes
\* it; it then evicts iff the index holds more than capacity keys, and then exactly
\* the entry at the back, from the list and from the index.
C7_PutAbsent ==
    \A t \in Threads :
        InBody(t) /\ PutAbsent(t) =>
            LET e == [key |-> call[t].key, value |-> call[t].value]
                old == before[t].items
            IN /\ pc[t] \in {"put_index", "put_check"} => Items = <<e>> \o old
               /\ pc[t] = "put_check" =>
                     /\ DOMAIN cacheMap = KeysOf(old) \cup {e.key}
                     /\ cacheMap[e.key] = Head(cache_items_)
               /\ pc[t] = "put_lru" => Len(old) + 1 > capacity_
               /\ pc[t] = "unlock" =>
                     /\ Items = IF Len(old) + 1 > capacity_
                                THEN <<e>> \o SubSeq(old, 1, Len(old) - 1)
                                ELSE <<e>> \o old
                     /\ DOMAIN cacheMap = KeysOf(Items)
                     /\ cacheMap[e.key] = Head(cache_items_)
                     /\ Len(Items) >= Len(old)

\* a put of an absent key into a full cache of capacity 2 is returning
C7_Witness ==
    \E t \in Threads :
        /\ Returning(t, "put") /\ PutAbsent(t)
        /\ capacity_ = 2 /\ Len(before[t].items) = 2
        /\ Len(cache_items_) = 2

\* C8: put(k, v) of a present k stores v for k, relinks k's entry at the front and
\* evicts nothing: the keys, the size, the locators and the other entries, in
\* their order, are as before, also in a full cache.
C8_PutPresent ==
    \A t \in Threads :
        Returning(t, "put") /\ PutPresent(t) =>
            /\ Items = <<[key |-> call[t].key, value |-> call[t].value]>>
                           \o Others(t, call[t].key)
            /\ cacheMap = before[t].map
            /\ MapSize(cacheMap) = Len(before[t].items)

\* a put is returning that found its key at the back of a full cache of capacity 2,
\* with another value
C8_Witness ==
    \E t \in Threads :
        /\ Returning(t, "put") /\ PutPresent(t)
        /\ capacity_ = 2 /\ Len(before[t].items) = 2
        /\ before[t].items[2].key = call[t].key
        /\ before[t].items[2].value # call[t].value

\* C9: get(k) of a present k returns true with the value stored for k, and only
\* relinks k's entry at the front: keys, size, locators and every value are as
\* before.
C9_GetPresent ==
    \A t \in Threads :
        Returning(t, "get") /\ call[t].key \in KeysOf(before[t].items) =>
            LET v == ValueIn(before[t].items, call[t].key) IN
            /\ ret[t] = Bool(TRUE)
            /\ out[t] = v
            /\ Items = <<[key |-> call[t].key, value |-> v]>> \o Others(t, call[t].key)
            /\ cacheMap = before[t].map

\* a get is returning that found its key at the back of two entries, and wrote a
\* value into the caller's variable that is neither the key nor what it held
C9_Witness ==
    \E t \in Threads :
        /\ Returning(t, "get") /\ Len(before[t].items) = 2
        /\ before[t].items[2].key = call[t].key
        /\ out[t] # call[t].key
        /\ out[t] # before[t].out

\* C10: get(k) of an absent k returns false and, all through, leaves the list
\* (entries and order), the index and the caller's variable as they were.
C10_GetAbsent ==
    \A t \in Threads :
        InBody(t) /\ call[t].op = "get" /\ call[t].key \notin KeysOf(before[t].items) =>
            /\ pc[t] \in {"get_find", "unlock"}
            /\ pc[t] = "unlock" => ret[t] = Bool(FALSE)
            /\ cache_items_ = before[t].list
            /\ Items = before[t].items
            /\ cacheMap = before[t].map
            /\ out[t] = before[t].out

\* a get is returning that missed in a cache that holds an entry, called with a
\* variable that held a value
C10_Witness ==
    \E t \in Threads :
        /\ Returning(t, "get") /\ ret[t] = Bool(FALSE)
        /\ before[t].items # <<>>
        /\ before[t].out \in Values

\* C11: remove(k) of a present k unlinks exactly k's entry and erases exactly k's
\* mapping (one entry less, the others with their locators and values, in their
\* order); remove(k) of an absent k changes nothing; neither signals anything, and
\* both leave k absent, so that a second remove(k) is the no-op of an absent key.
C11_Remove ==
    \A t \in Threads :
        InBody(t) /\ call[t].op = "remove" =>
            LET k == call[t].key IN
            /\ pc[t] = "unlock" => ret[t] = Void
            /\ pc[t] = "unlock" => k \notin DOMAIN cacheMap /\ k \notin KeysOf(Items)
            /\ pc[t] = "unlock" /\ k \in KeysOf(before[t].items) =>
                  /\ Items = Others(t, k)
                  /\ cache_items_ = SelectSeq(before[t].list,
                                              LAMBDA n : n # before[t].map[k])
                  /\ cacheMap = [x \in DOMAIN before[t].map \ {k} |-> before[t].map[x]]
                  /\ MapSize(cacheMap) = Len(before[t].items) - 1
            /\ k \notin KeysOf(before[t].items) =>
                  /\ pc[t] \in {"rm_find", "unlock"}
                  /\ cache_items_ = before[t].list
                  /\ Items = before[t].items
                  /\ cacheMap = before[t].map

\* a remove is returning that found its key in front of another entry
C11_Witness ==
    \E t \in Threads :
        /\ Returning(t, "remove") /\ Len(before[t].items) = 2
        /\ before[t].items[1].key = call[t].key
        /\ Len(cache_items_) = 1

\* C12: with capacity >= 1, put(k, v) returns with (k, v) as the front entry and k
\* indexed to it (it has not evicted k), and a get(k) that finds the cache so,
\* no operation having taken effect since, returns true with v.
C12_PutThenGet ==
    /\ \A t \in Threads :
          Returning(t, "put") =>
              /\ call[t].key \in DOMAIN cacheMap
              /\ cache_items_ # <<>>
              /\ cacheMap[call[t].key] = Head(cache_items_)
              /\ Items[1] = [key |-> call[t].key, value |-> call[t].value]
    /\ \A t \in Threads :
          /\ Returning(t, "get")
          /\ before[t].items # <<>>
          /\ before[t].items[1].key = call[t].key
          => ret[t] = Bool(TRUE) /\ out[t] = before[t].items[1].value

\* a get is returning from a full cache of capacity 2 whose front entry, of its
\* key, held the value 2, with a caller's variable that held something else
C12_Witness ==
    \E t \in Threads :
        /\ Returning(t, "get") /\ capacity_ = 2
        /\ Len(before[t].items) = 2
        /\ before[t].items[1] = [key |-> call[t].key, value |-> 2]
        /\ before[t].out # 2
        /\ out[t] = 2

\* C13: after capacity + 1 distinct keys k1 .. k(N+1) were put, in that order, into
\* the new cache with no get or remove in between, k1 is gone and the others are
\* cached: get(k1) returns false, get of each other returns true with the value
\* put for it.
C13_FillEvictsFirst ==
    Filled(fill) =>
        /\ mutex_.writer = NoThread =>
              /\ Find(cacheMap, fill[1]) = NoNode
              /\ \A i \in 2..Len(fill) :
                    /\ Find(cacheMap, fill[i]) # NoNode
                    /\ NodeValue(Find(cacheMap, fill[i])) = lastPut[fill[i]]
        /\ \A t \in Threads :
              Returning(t, "get") =>
                  /\ call[t].key = fill[1] => ret[t] = Bool(FALSE)
                  /\ \A i \in 2..Len(fill) :
                        call[t].key = fill[i] =>
                            ret[t] = Bool(TRUE) /\ out[t] = lastPut[fill[i]]

\* capacity 2, three keys were put: a get of the second one is returning, found
C13_Witness ==
    \E t \in Threads :
        /\ capacity_ = 2 /\ Filled(fill)
        /\ Returning(t, "get") /\ call[t].key = fill[2]
        /\ ret[t] = Bool(TRUE)

Finite == \A t \in Threads : calls[t] # Endless
Finished == \A t \in Threads : pc[t] = "idle" /\ calls[t] = 0
Holds(t) == mutex_.writer = t \/ t \in mutex_.readers

\* C14 as stated: every call that was made returns.
C14_EveryCallReturns ==
    \A t \in Threads : (pc[t] = "lock") ~> (pc[t] = "idle")

\* C14, amended: a thread outside the methods holds no lock (every return path
\* releases it); a call that has the lock returns; a call that waits returns unless
\* another thread keeps calling without end; and callers with finite loops, as the
\* driver's writers and readers, all finish.
C14_CallsReturn ==
    /\ [](\A t \in Threads : pc[t] \in {"idle", "lock"} => ~Holds(t))
    /\ \A t \in Threads : InBody(t) ~> (pc[t] = "idle")
    /\ \A t \in Threads :
          (\A u \in Threads \ {t} : calls[u] # Endless) =>
              ((pc[t] = "lock") ~> (pc[t] = "idle"))
    /\ Finite => <>[]Finished

\* the callers had finite loops and have finished, leaving entries in the cache
C14_Witness ==
    /\ Finite /\ Finished
    /\ mutex_ = [writer |-> NoThread, readers |-> {}]
    /\ cache_items_ # <<>>

\* C15: a cache of capacity 0 is never ready: no call on it gets as far as its
\* return.
C15_ZeroCapacityRejected ==
    \A t \in Threads : ~(capacity_ = 0 /\ pc[t] = "unlock")

\* C16 as stated: at capacity 0 the eviction step of put finds the list empty.
C16_EvictsFromEmptyTail ==
    \A t \in Threads : capacity_ = 0 /\ pc[t] = "put_lru" => cache_items_ = <<>>

\* C16, amended: at capacity 0 every put reaches the eviction step, and there the
\* list holds exactly the entry the put has just inserted; that entry is the one
\* evicted, and the cache is empty again when the put returns and whenever no
\* writer is inside.
C16_EvictsOwnEntry ==
    capacity_ = 0 =>
        /\ mutex_.writer = NoThread => cache_items_ = <<>> /\ cacheMap = EmptyMap
        /\ \A t \in Threads :
              /\ pc[t] = "put_check" => OverCapacity(cacheMap)
              /\ pc[t] = "put_lru" =>
                    /\ Items = <<[key |-> call[t].key, value |-> call[t].value]>>
                    /\ DOMAIN cacheMap = {call[t].key}
                    /\ cacheMap[call[t].key] = LastNode(cache_items_)
              /\ pc[t] \in {"put_erase", "put_pop"} =>
                    /\ Len(cache_items_) = 1
                    /\ lru[t] = cache_items_[1]
                    /\ nodes[lru[t]].key = call[t].key
              /\ Returning(t, "put") => cache_items_ = <<>> /\ cacheMap = EmptyMap

\* a put on a cache of capacity 0 is at its eviction step, its own entry in the list
C16_Witness ==
    \E t \in Threads :
        capacity_ = 0 /\ pc[t] = "put_lru" /\ Len(cache_items_) = 1

\* C17: a size() that runs while a put is under way never sees the index with
\* capacity + 1 keys: while the index holds more than capacity keys no thread is
\* inside size, inside size the index holds at most capacity keys and no writer is
\* inside, and the count size returns is at most the capacity.
C17_SizeNeverSeesOverflow ==
    /\ MapSize(cacheMap) > capacity_ => \A t \in Threads : ~InSizeBody(t)
    /\ \A t \in Threads :
          InSizeBody(t) =>
              /\ mutex_.writer = NoThread
              /\ MapSize(cacheMap) <= capacity_
              /\ pc[t] = "unlock" =>
                    ret[t] = SizeT(MapSize(cacheMap)) /\ ret[t].size <= capacity_

\* a put has the index at capacity + 1 keys while the other thread has called
\* size and waits for the lock
C17_Witness ==
    \E t, u \in Threads :
        /\ call[t].op = "put" /\ pc[t] \in {"put_check", "put_lru"}
        /\ MapSize(cacheMap) = capacity_ + 1
        /\ pc[u] = "lock" /\ call[u].op = "size"

\* the entry node n held when the snapshot s was taken
EntryAt(s, n) == s.items[CHOOSE i \in 1..Len(s.list) : s.list[i] = n]
Linked == {cache_items_[i] : i \in 1..Len(cache_items_)}

\* C18: whenever no writer is inside, and when a get, put or remove returns, every
\* locator of the index designates a linked entry with the key it is indexed under,
\* and no two keys have the same locator; and at every step of a get, put or remove
\* on key k, every other key of the index has the locator it had when the
\* operation began, designating the same entry.
C18_LocatorsStable ==
    /\ (mutex_.writer = NoThread \/ \E t \in Threads : pc[t] = "unlock") =>
          /\ \A k \in DOMAIN cacheMap :
                cacheMap[k] \in Linked /\ nodes[cacheMap[k]].key = k
          /\ \A k1, k2 \in DOMAIN cacheMap : cacheMap[k1] = cacheMap[k2] => k1 = k2
    /\ \A t \in Threads :
          InExclusiveBody(t) =>
              \A k \in DOMAIN cacheMap \ {call[t].key} :
                  /\ k \in DOMAIN before[t].map
                  /\ cacheMap[k] = before[t].map[k]
                  /\ nodes[cacheMap[k]] = EntryAt(before[t], cacheMap[k])

\* a put of an absent key into a full cache of capacity 2 is returning: it linked a
\* node, evicted one, and the key that stayed has its locator
C18_Witness ==
    \E t \in Threads :
        /\ Returning(t, "put") /\ PutAbsent(t)
        /\ capacity_ = 2 /\ Len(before[t].items) = 2
        /\ \E k \in DOMAIN cacheMap \ {call[t].key} : cacheMap[k] = before[t].map[k]

\* the position of key k in the entries c, and the order of two keys in c
Pos(c, k) == CHOOSE i \in 1..Len(c) : c[i].key = k
Precedes(c, k1, k2) == Pos(c, k1) < Pos(c, k2)

Steps(t) == InBody(t) /\ pc'[t] # pc[t]

\* C20: a key enters the index only at the indexing step of a put of that key; a
\* key leaves it only at the index erase of a remove of that key, or at the
\* eviction of a put of a different key that was absent when the cache held
\* capacity keys; no step of a get or a size changes the key set. At its return a
\* put has added one key if its key was absent and the cache not full and otherwise
\* left the count as it was, a remove has taken one key away if its key was present,
\* and a get or a size has left the key set as it was; so a cache that was full is
\* full at the return of every operation but a remove.
C20_KeySetChanges ==
    /\ [][\A k \in Keys :
            /\ (k \notin DOMAIN cacheMap /\ k \in DOMAIN cacheMap') =>
                  \E t \in Threads :
                      /\ Steps(t) /\ pc[t] = "put_index"
                      /\ call[t].op = "put" /\ call[t].key = k
            /\ (k \in DOMAIN cacheMap /\ k \notin DOMAIN cacheMap') =>
                  \E t \in Threads :
                      /\ Steps(t)
                      /\ \/ pc[t] = "rm_index" /\ call[t].op = "remove" /\ call[t].key = k
                         \/ /\ pc[t] = "put_erase" /\ PutAbsent(t)
                            /\ call[t].key # k
                            /\ Len(before[t].items) = capacity_
            /\ (\E t \in Threads : Steps(t) /\ call[t].op \in {"get", "size"}) =>
                  DOMAIN cacheMap' = DOMAIN cacheMap]_vars
    /\ [](\A t \in Threads :
            /\ Returning(t, "put") =>
                  MapSize(cacheMap) =
                      IF PutAbsent(t) /\ Len(before[t].items) < capacity_
                      THEN Len(before[t].items) + 1 ELSE Len(before[t].items)
            /\ Returning(t, "remove") =>
                  MapSize(cacheMap) =
                      IF call[t].key \in KeysOf(before[t].items)
                      THEN Len(before[t].items) - 1 ELSE Len(before[t].items)
            /\ (Returning(t, "get") \/ Returning(t, "size")) =>
                  DOMAIN cacheMap = DOMAIN before[t].map
            /\ (pc[t] = "unlock" /\ call[t].op # "remove"
                    /\ Len(before[t].items) = capacity_) =>
                  MapSize(cacheMap) = capacity_)

\* a put of an absent key into a full cache of capacity 2 has erased the evicted
\* key from the index and is about to unlink its entry
C20_Witness ==
    \E t \in Threads :
        /\ pc[t] = "put_pop" /\ PutAbsent(t)
        /\ capacity_ = 2 /\ Len(before[t].items) = 2
        /\ nodes[lru[t]].key \notin DOMAIN cacheMap
        /\ call[t].key \in DOMAIN cacheMap

====
